---- MODULE Spec2Model ----
(***************************************************************************)
(* Model of src/UR5/UR5Sim.py: the UR5Sim joint registry, the batched      *)
(* position command of set_joint_angles, check_collisions, and the control *)
(* loop of demo_simulation.  The physics engine and the objective solver   *)
(* are external: the engine is modelled by the state it exposes (reported  *)
(* joints, motor targets, contact points), the solver by a nondeterministic *)
(* choice of the joint configuration it returns.                           *)
(***************************************************************************)
EXTENDS Integers, Sequences, FiniteSets, TLC

VARIABLES
    pc,            \* position of demo_simulation
    urdfLoads,     \* whether pybullet.loadURDF can instantiate the bodies
    simJoints,     \* what getNumJoints/getJointInfo report for the robot
    joints,        \* self.joints, the registry: name -> jointInfo
    motors,        \* simulator actuator state: joint id -> motor target
    cmdLog,        \* setJointMotorControlArray calls of the latest set_joint_angles
    solvers,       \* number of Solver objects constructed
    clock,         \* wall clock, counted in elapsed sleeps (fixed width)
    current_time,  \* the local current_time
    state,         \* the local state: the joints the solver returned and the time it solved for
    contacts,      \* number of contact points the simulator holds
    collided,      \* value returned by the latest check_collisions
    hist           \* the latest operations performed, oldest first

vars == <<pc, urdfLoads, simJoints, joints, motors, cmdLog, solvers, clock,
          current_time, state, contacts, collided, hist>>

-----------------------------------------------------------------------------
(* Bounds of the model *)

MaxCfgLen == 1

HistLen == 7

ClockMod == 2

MaxContacts == 1

-----------------------------------------------------------------------------
(* Program constants *)

control_joints ==
    <<"shoulder_pan_joint", "shoulder_lift_joint", "elbow_joint",
      "wrist_1_joint", "wrist_2_joint", "wrist_3_joint">>

joint_type_list == <<"REVOLUTE", "PRISMATIC", "SPHERICAL", "PLANAR", "FIXED">>

\* positionGains entry 0.04, in hundredths
PositionGain == 4

Range(s) == {s[k] : k \in DOMAIN s}

ControlNames == Range(control_joints)

-----------------------------------------------------------------------------
(* The robot the simulator reports.  Joint ids 1..6 are the arm joints and *)
(* id 7 the end effector joint, as get_joint_angles and end_effector_index *)
(* assume; id 0 is the joint that fixes the base to the world.             *)

UrdfOrder ==
    <<"world_joint", "shoulder_pan_joint", "shoulder_lift_joint", "elbow_joint",
      "wrist_1_joint", "wrist_2_joint", "wrist_3_joint", "ee_fixed_joint">>

UrdfIndex(n) == CHOOSE k \in DOMAIN UrdfOrder : UrdfOrder[k] = n

\* Descriptions that lack one joint, besides the complete one.
AbsentSets == {{}, {"wrist_3_joint"}, {"ee_fixed_joint"}}

\* A joint declared with another type than the stock description gives it:
\* [name, type code]; the stock description has type code 0 (REVOLUTE) for
\* the arm joints and 4 (FIXED) for the others.
TypeOverrides == {<<"world_joint", 4>>, <<"ee_fixed_joint", 0>>, <<"elbow_joint", 1>>}

TypeCode(n, ov) ==
    IF n = ov[1] THEN ov[2]
    ELSE IF n \in ControlNames THEN 0 ELSE 4

RECURSIVE Without(_, _)
Without(s, A) ==
    IF s = <<>> THEN <<>>
    ELSE IF Head(s) \in A THEN Without(Tail(s), A)
    ELSE <<Head(s)>> \o Without(Tail(s), A)

\* The getJointInfo tuples of a robot, in index order (position p is id p-1).
ReportedJoints(absent, ov) ==
    LET names == Without(UrdfOrder, absent) IN
    [p \in DOMAIN names |->
        [name        |-> names[p],
         type        |-> TypeCode(names[p], ov),
         lowerLimit  |-> IF TypeCode(names[p], ov) = 4 THEN 0 ELSE -6,
         upperLimit  |-> IF TypeCode(names[p], ov) = 4 THEN 0 ELSE 6,
         maxForce    |-> 10 * UrdfIndex(names[p]),
         maxVelocity |-> 3]]

Robots == {ReportedJoints(a, ov) : a \in AbsentSets, ov \in TypeOverrides}

\* Motor target of a joint nobody has commanded yet.
DefaultMotor == [mode |-> "DEFAULT", position |-> 0, velocity |-> 0, gain |-> 0, force |-> 0]

-----------------------------------------------------------------------------
(* Joint configurations the solver may return: a dict, modelled by its     *)
(* items in iteration order, <<name, pose>> with pairwise distinct names.  *)

Poses == {1, 2}

CfgKeys == {"wrist_3_joint", "ee_fixed_joint", "bogus_joint"}

FullConfig(v) == [k \in DOMAIN control_joints |-> <<control_joints[k], v>>]

DistinctKeys(cfg) == \A i, j \in DOMAIN cfg : i # j => cfg[i][1] # cfg[j][1]

ShortConfigs ==
    UNION {{cfg \in [1..n -> CfgKeys \X Poses] : DistinctKeys(cfg)} : n \in 0..MaxCfgLen}

Configs == ShortConfigs \cup {FullConfig(v) : v \in Poses}

-----------------------------------------------------------------------------
(* History of operations *)

Push(h, e) ==
    LET a == Append(h, e) IN
    IF Len(a) > HistLen THEN Tail(a) ELSE a

Last(h) == h[Len(h)]

-----------------------------------------------------------------------------
Init ==
    /\ pc = "start"
    /\ urdfLoads \in BOOLEAN
    /\ simJoints \in Robots
    /\ joints = <<>>
    /\ motors = [id \in 0..(Len(simJoints) - 1) |-> DefaultMotor]
    /\ cmdLog = <<>>
    /\ solvers = 0
    /\ clock = 0
    /\ current_time = 0
    /\ state = [joints |-> <<>>, time |-> 0]
    /\ contacts = 0
    /\ collided = FALSE
    /\ hist = <<>>

-----------------------------------------------------------------------------
(* UR5Sim.__init__ *)

\* controllable flag of a joint name
Controllable(name) == name \in ControlNames

\* whether the build sends the joint the zero-velocity, zero-force command
DisablesMotor(info) == info.type = "REVOLUTE"

\* the jointInfo tuple built from the getJointInfo tuple at position p
JointInfo(sj, p) ==
    [id           |-> p - 1,
     name         |-> sj[p].name,
     type         |-> joint_type_list[sj[p].type + 1],
     lowerLimit   |-> sj[p].lowerLimit,
     upperLimit   |-> sj[p].upperLimit,
     maxForce     |-> sj[p].maxForce,
     maxVelocity  |-> sj[p].maxVelocity,
     controllable |-> Controllable(sj[p].name)]

\* self.joints after the loop over range(num_joints)
Registry(sj) ==
    [n \in {sj[p].name : p \in DOMAIN sj} |->
        JointInfo(sj, CHOOSE p \in DOMAIN sj : sj[p].name = n)]

\* setJointMotorControl2(ur5, id, VELOCITY_CONTROL, targetVelocity=0, force=0)
VelocityOff ==
    [mode |-> "VELOCITY_CONTROL", position |-> 0, velocity |-> 0, gain |-> 0, force |-> 0]

\* loadURDF raises: the constructor does not return
LoadFails ==
    /\ pc = "start"
    /\ ~urdfLoads
    /\ pc' = "raised"
    /\ UNCHANGED <<urdfLoads, simJoints, joints, motors, cmdLog, solvers, clock,
                   current_time, state, contacts, collided, hist>>

UR5SimInit ==
    /\ pc = "start"
    /\ urdfLoads
    /\ joints' = Registry(simJoints)
    /\ motors' = [id \in DOMAIN motors |->
                    IF DisablesMotor(JointInfo(simJoints, id + 1))
                    THEN VelocityOff ELSE motors[id]]
    /\ pc' = "mksolver"
    /\ hist' = Push(hist, "UR5Sim")
    /\ UNCHANGED <<urdfLoads, simJoints, cmdLog, solvers, clock, current_time,
                   state, contacts, collided>>

-----------------------------------------------------------------------------
(* UR5Sim.set_joint_angles *)

\* every self.joints[name] lookup of the loop succeeds
Resolves(cfg) == \A k \in DOMAIN cfg : cfg[k][1] \in DOMAIN joints

\* Variant: forces.append(joint.maxVelocity) instead of joint.maxForce.
PositionCommandVelocityAsForce(cfg) ==
    [jointIndices     |-> [k \in DOMAIN cfg |-> joints[cfg[k][1]].id],
     controlMode      |-> "POSITION_CONTROL",
     targetPositions  |-> [k \in DOMAIN cfg |-> cfg[k][2]],
     targetVelocities |-> [k \in DOMAIN cfg |-> 0],
     positionGains    |-> [k \in DOMAIN cfg |-> PositionGain],
     forces           |-> [k \in DOMAIN cfg |-> joints[cfg[k][1]].maxVelocity]]

\* the arguments of the setJointMotorControlArray call
PositionCommand(cfg) ==
    [jointIndices     |-> [k \in DOMAIN cfg |-> joints[cfg[k][1]].id],
     controlMode      |-> "POSITION_CONTROL",
     targetPositions  |-> [k \in DOMAIN cfg |-> cfg[k][2]],
     targetVelocities |-> [k \in DOMAIN cfg |-> 0],
     positionGains    |-> [k \in DOMAIN cfg |-> PositionGain],
     forces           |-> [k \in DOMAIN cfg |-> joints[cfg[k][1]].maxForce]]

\* the simulator's motor targets after it takes the command
Commanded(m, cmd) ==
    [id \in DOMAIN m |->
        IF \E k \in DOMAIN cmd.jointIndices : cmd.jointIndices[k] = id
        THEN LET k == CHOOSE k \in DOMAIN cmd.jointIndices :
                        /\ cmd.jointIndices[k] = id
                        /\ \A j \in DOMAIN cmd.jointIndices :
                              cmd.jointIndices[j] = id => j <= k
             IN [mode     |-> cmd.controlMode,
                 position |-> cmd.targetPositions[k],
                 velocity |-> cmd.targetVelocities[k],
                 gain     |-> cmd.positionGains[k],
                 force    |-> cmd.forces[k]]
        ELSE m[id]]

\* the calls set_joint_angles(cfg) makes: none when a lookup raises KeyError
IssuedCommands(cfg) ==
    IF Resolves(cfg) THEN <<PositionCommand(cfg)>> ELSE <<>>

\* Variant: a lookup that misses is skipped instead of raising.
NeverRaises(cfg) == FALSE

\* whether set_joint_angles(cfg) raises
Raises(cfg) == ~Resolves(cfg)

-----------------------------------------------------------------------------
(* demo_simulation *)

\* Variants of the loop body: statements swapped or lost.
LoopBodyCheckFirst == <<"check", "apply", "step", "sleep", "time", "solve">>

LoopBodyStepFirst == <<"apply", "step", "check", "sleep", "time", "solve">>

LoopBodyNoStep == <<"apply", "check", "sleep", "time", "solve">>

LoopBodyTimeBeforeSleep == <<"apply", "check", "step", "time", "sleep", "solve">>

\* the statements of the body of `while True`, in order
LoopBody == <<"apply", "check", "step", "sleep", "time", "solve">>

LoopSucc(p) ==
    LET k == CHOOSE k \in DOMAIN LoopBody : LoopBody[k] = p
    IN LoopBody[(k % Len(LoopBody)) + 1]

MakeSolver ==
    /\ pc = "mksolver"
    /\ solvers' = solvers + 1
    /\ pc' = "time0"
    /\ hist' = Push(hist, "Solver")
    /\ UNCHANGED <<urdfLoads, simJoints, joints, motors, cmdLog, clock,
                   current_time, state, contacts, collided>>

ReadTime0 ==
    /\ pc = "time0"
    /\ current_time' = clock
    /\ pc' = "solve0"
    /\ hist' = Push(hist, "time")
    /\ UNCHANGED <<urdfLoads, simJoints, joints, motors, cmdLog, solvers, clock,
                   state, contacts, collided>>

Solve0 ==
    /\ pc = "solve0"
    /\ \E cfg \in Configs : state' = [joints |-> cfg, time |-> current_time]
    /\ pc' = LoopBody[1]
    /\ hist' = Push(hist, "solve")
    /\ UNCHANGED <<urdfLoads, simJoints, joints, motors, cmdLog, solvers, clock,
                   current_time, contacts, collided>>

SetJointAngles ==
    /\ pc = "apply"
    /\ cmdLog' = IssuedCommands(state.joints)
    /\ motors' = IF cmdLog' = <<>> THEN motors ELSE Commanded(motors, cmdLog'[1])
    /\ pc' = IF Raises(state.joints) THEN "raised" ELSE LoopSucc("apply")
    /\ hist' = Push(hist, "apply")
    /\ UNCHANGED <<urdfLoads, simJoints, joints, solvers, clock, current_time,
                   state, contacts, collided>>

\* Variant: the loop stops at the first collision.
CheckCollisionsHalting ==
    /\ pc = "check"
    /\ collided' = (contacts > 0)
    /\ pc' = IF contacts > 0 THEN "halted" ELSE LoopSucc("check")
    /\ hist' = Push(hist, "check")
    /\ UNCHANGED <<urdfLoads, simJoints, joints, motors, cmdLog, solvers, clock,
                   current_time, state, contacts>>

CheckCollisions ==
    /\ pc = "check"
    /\ collided' = (contacts > 0)
    /\ pc' = LoopSucc("check")
    /\ hist' = Push(hist, "check")
    /\ UNCHANGED <<urdfLoads, simJoints, joints, motors, cmdLog, solvers, clock,
                   current_time, state, contacts>>

StepSimulation ==
    /\ pc = "step"
    /\ contacts' \in 0..MaxContacts
    /\ pc' = LoopSucc("step")
    /\ hist' = Push(hist, "step")
    /\ UNCHANGED <<urdfLoads, simJoints, joints, motors, cmdLog, solvers, clock,
                   current_time, state, collided>>

Sleep ==
    /\ pc = "sleep"
    /\ clock' = (clock + 1) % ClockMod
    /\ pc' = LoopSucc("sleep")
    /\ hist' = Push(hist, "sleep")
    /\ UNCHANGED <<urdfLoads, simJoints, joints, motors, cmdLog, solvers,
                   current_time, state, contacts, collided>>

ReadTime ==
    /\ pc = "time"
    /\ current_time' = clock
    /\ pc' = LoopSucc("time")
    /\ hist' = Push(hist, "time")
    /\ UNCHANGED <<urdfLoads, simJoints, joints, motors, cmdLog, solvers, clock,
                   state, contacts, collided>>

Solve ==
    /\ pc = "solve"
    /\ \E cfg \in Configs : state' = [joints |-> cfg, time |-> current_time]
    /\ pc' = LoopSucc("solve")
    /\ hist' = Push(hist, "solve")
    /\ UNCHANGED <<urdfLoads, simJoints, joints, motors, cmdLog, solvers, clock,
                   current_time, contacts, collided>>

Next ==
    \/ LoadFails
    \/ UR5SimInit
    \/ MakeSolver
    \/ ReadTime0
    \/ Solve0
    \/ SetJointAngles
    \/ CheckCollisions
    \/ StepSimulation
    \/ Sleep
    \/ ReadTime
    \/ Solve

Spec == Init /\ [][Next]_vars

\* The interpreter runs the next statement whenever there is one.
FairSpec == Spec /\ WF_vars(Next)

-----------------------------------------------------------------------------
(* Properties *)

ReportedNames == {simJoints[p].name : p \in DOMAIN simJoints}

LoopPcs == {"apply", "check", "step", "sleep", "time", "solve"}

\* hist holds e at position i, directly after an operation among prev
After(i, prev) == i = 1 \/ hist[i - 1] \in prev

\* hist holds the operations of seq at positions i, i+1, ...
HoldsAt(i, seq) ==
    /\ i + Len(seq) - 1 <= Len(hist)
    /\ \A k \in DOMAIN seq : hist[i + k - 1] = seq[k]

Applied == hist # <<>> /\ Last(hist) = "apply"

\* C1: every joint that has received a position-control command is one of
\* the six control joints; a registered joint with controllable=false is
\* never commanded by set_joint_angles.
OnlyControlJointsCommanded ==
    \A id \in DOMAIN motors :
        motors[id].mode = "POSITION_CONTROL" => simJoints[id + 1].name \in ControlNames

\* C2: when one of the six control joints is absent from the joints the
\* simulator reports, construction fails and the control loop is never entered.
MissingControlJointAborts ==
    (ControlNames \ ReportedNames # {}) => pc \in {"start", "raised"}

\* C3: set_joint_angles on a configuration with a key that is not registered
\* raises, issues no motor command for that call, and leaves the motor
\* targets unchanged.
UnknownKeyFailsLoudly ==
    [][(pc = "apply" /\ \E k \in DOMAIN state.joints : state.joints[k][1] \notin DOMAIN joints)
         => (pc' = "raised" /\ cmdLog' = <<>> /\ motors' = motors)]_vars

\* C3 witness: a call raised on a configuration whose first key is registered,
\* with position targets in place from an earlier call.
UnknownKeyAfterValidKeyRaised ==
    /\ pc = "raised"
    /\ Applied
    /\ Len(state.joints) > 1
    /\ state.joints[1][1] \in DOMAIN joints
    /\ \E id \in DOMAIN motors : motors[id].mode = "POSITION_CONTROL"

\* C4: in every tick the order is set_joint_angles, check_collisions,
\* stepSimulation, sleep: the check directly follows the actuation, the step
\* directly follows the check, the sleep directly follows the step.
TickPhaseOrder ==
    /\ \A i \in DOMAIN hist :
          /\ hist[i] = "check" => After(i, {"apply"})
          /\ hist[i] = "step" => After(i, {"check"})
          /\ hist[i] = "sleep" => After(i, {"step"})
          /\ (hist[i] = "apply" /\ i < Len(hist)) => hist[i + 1] = "check"
    /\ (Applied /\ pc # "raised") => pc = "check"

\* C4 witness: a tick has run its four phases.
TickPhasesRan ==
    \E i \in DOMAIN hist : HoldsAt(i, <<"apply", "check", "step", "sleep">>)

\* C5 as stated: in every tick the simulator step directly precedes the
\* collision check.
StepBeforeCheck ==
    \A i \in DOMAIN hist : hist[i] = "check" => After(i, {"step"})

\* C5 as amended: the collision check runs before the tick's simulator step,
\* so what it observes is the contact state the previous tick's step left
\* (no contact in the first tick), and the step comes right after it.
CheckObservesPreviousStep ==
    /\ (hist # <<>> /\ Last(hist) = "check") =>
          /\ collided = (contacts > 0)
          /\ pc = "step"
          /\ \A i \in DOMAIN hist :
                hist[i] = "step" => \E j \in DOMAIN hist : j > i /\ hist[j] = "apply"
          /\ ("Solver" \in Range(hist) /\ "step" \notin Range(hist)) => ~collided
    /\ \A i \in DOMAIN hist :
          (hist[i] = "check" /\ i < Len(hist)) => hist[i + 1] = "step"

\* C5 witness: a check has reported the contacts of the previous tick's step.
CheckSawEarlierStep ==
    /\ hist # <<>> /\ Last(hist) = "check"
    /\ collided
    /\ "step" \in Range(hist)

\* C6: between two consecutive set_joint_angles calls of the loop there is
\* exactly one stepSimulation call.
ExactlyOneStepPerTick ==
    \A i, j \in DOMAIN hist :
        (/\ i < j
         /\ hist[i] = "apply"
         /\ hist[j] = "apply"
         /\ \A k \in (i + 1)..(j - 1) : hist[k] # "apply")
        => Cardinality({k \in (i + 1)..(j - 1) : hist[k] = "step"}) = 1

\* C6 witness: two set_joint_angles calls, the second after a collision.
TwoApplies ==
    /\ Applied
    /\ collided
    /\ \E i \in 1..(Len(hist) - 1) : hist[i] = "apply"

\* C7: on a configuration whose keys are all registered, set_joint_angles
\* issues exactly one command; its five arrays have the length of the
\* configuration; entry k holds the k-th value, velocity 0, gain 0.04, and the
\* id and maxForce of the joint named by the k-th key.
BatchedCommandShape ==
    (Applied /\ \A k \in DOMAIN state.joints : state.joints[k][1] \in ReportedNames)
    => /\ Len(cmdLog) = 1
       /\ LET c == cmdLog[1]
              n == Len(state.joints)
          IN /\ c.controlMode = "POSITION_CONTROL"
             /\ Len(c.jointIndices) = n
             /\ Len(c.targetPositions) = n
             /\ Len(c.targetVelocities) = n
             /\ Len(c.positionGains) = n
             /\ Len(c.forces) = n
             /\ \A k \in 1..n :
                   /\ c.targetPositions[k] = state.joints[k][2]
                   /\ c.targetVelocities[k] = 0
                   /\ c.positionGains[k] = PositionGain
                   /\ c.jointIndices[k] \in DOMAIN motors
                   /\ simJoints[c.jointIndices[k] + 1].name = state.joints[k][1]
                   /\ c.forces[k] = simJoints[c.jointIndices[k] + 1].maxForce
                   /\ motors[c.jointIndices[k]].position = state.joints[k][2]

\* C7 witness: the six control joints were commanded in one call.
FullConfigApplied ==
    /\ Applied
    /\ pc = "check"
    /\ state.joints = FullConfig(2)
    /\ Len(cmdLog) = 1

\* C8: right after the registry build, a joint holds the zero-velocity,
\* zero-force command iff it is a control joint of type REVOLUTE, and a
\* descriptor is controllable iff its name is a control joint.
DisableOnlyControllableRevolute ==
    pc = "mksolver" =>
        /\ \A id \in DOMAIN motors :
              motors[id] = VelocityOff <=>
                  (simJoints[id + 1].name \in ControlNames /\ simJoints[id + 1].type = 0)
        /\ \A n \in DOMAIN joints : joints[n].controllable <=> n \in ControlNames

\* C9: a collision does not stop the loop: after a check that returned true
\* the tick still steps and sleeps and the loop reaches the next apply; and
\* unless an error is raised the simulator is stepped infinitely often.
CollisionNeverStopsLoop ==
    /\ ((pc = "step" /\ collided) ~>
           (collided /\ \E i \in DOMAIN hist : HoldsAt(i, <<"check", "step", "sleep">>)
                     /\ i + 2 = Len(hist)))
    /\ ((pc = "step" /\ collided) ~> (pc = "apply"))
    /\ ([]<>(hist # <<>> /\ Last(hist) = "step") \/ <>[](pc = "raised"))

\* C9 witness: the simulator was stepped in a tick whose check found a collision.
SteppedAfterCollision ==
    /\ hist # <<>> /\ Last(hist) = "step"
    /\ collided
    /\ pc = "sleep"

\* C10: one Solver is constructed, before the loop; solve and set_joint_angles
\* alternate, starting with a solve; what is applied is the latest solve's
\* result; each solve uses a time read after the previous sleep, and neither a
\* step nor a sleep separates that read from the apply.
SolveApplyAlternate ==
    /\ solvers <= 1
    /\ pc \in LoopPcs \cup {"time0", "solve0"} => solvers = 1
    /\ \A i \in DOMAIN hist :
          /\ hist[i] = "Solver" => After(i, {"UR5Sim"})
          /\ hist[i] = "time" => After(i, {"sleep", "Solver"})
          /\ hist[i] = "solve" => After(i, {"time"})
          /\ hist[i] = "apply" => After(i, {"solve"})
          /\ (hist[i] = "solve" /\ i < Len(hist)) => hist[i + 1] = "apply"
    /\ Applied =>
          /\ state.time = clock
          /\ cmdLog # <<>> =>
                cmdLog[1].targetPositions = [k \in DOMAIN state.joints |-> state.joints[k][2]]

\* C10 witness: a configuration solved after a sleep has been applied.
SolvedAfterSleepApplied ==
    /\ Applied
    /\ pc = "check"
    /\ clock = 1
    /\ \E i \in DOMAIN hist : HoldsAt(i, <<"sleep", "time", "solve", "apply">>)

====
